---- MODULE Spec2Model ----
(***************************************************************************)
(* SimpleSfuManager (src/src/sfu_simple.rs): the signaling relay's room    *)
(* table and connection table, each behind a tokio::sync::RwLock, and the  *)
(* async handlers that read and write them.  A handler runs atomically     *)
(* between two lock acquisitions (its await points); a lock request waits  *)
(* in the lock's FIFO queue until the lock is handed to it.                *)
(***************************************************************************)
EXTENDS Integers, Sequences, FiniteSets, TLC

\* ---------------------------------------------------------------- bounds
\* The number of calls started in one behaviour.
MaxCalls == 3

\* ---------------------------------------------------------------- inputs
\* The tasks of the runtime that run calls concurrently.
Tasks == {"t1", "t2"}

RoomIds == {"r1", "r2"}
ConnIds == {"c1", "c2"}
Sdps    == {"o1"}
Cands   == {"k1"}

\* Option::None of an Option<String>; a JSON value that is present but is
\* not a string (as_str() answers None for it).
None   == "None"
NonStr == "NonStr"

\* Option<bool> of SignalingMessage.is_sender
OptBool == {"None", "true", "false"}

Tables == {"connections", "rooms"}

\* -------------------------------------------------------- data structures
EmptyMap == [k \in {} |-> None]

MapInsert(m, k, v) == [x \in (DOMAIN m) \cup {k} |-> IF x = k THEN v ELSE m[x]]

MapRemove(m, k) == [x \in (DOMAIN m) \ {k} |-> m[x]]

\* serde_json data object: the keys this code reads or writes; a key that is
\* absent is None, connection_count absent is -1.
NoData == [sdp |-> None, candidate |-> None, connection_id |-> None, connection_count |-> -1]

SimpleSfuRoom(room_id) ==
    [id |-> room_id, sender_id |-> None, viewer_ids |-> <<>>,
     sender_sdp |-> None, viewer_sdp |-> {}]

SimpleSfuConnection(connection_id, is_sender) ==
    [id |-> connection_id, is_sender |-> is_sender,
     sdp_offer |-> None, sdp_answer |-> None]

\* Option<String> of offer_id: 0 is None, a fresh Uuid is a positive number.
NoOfferId == 0

SignalingMessage(message_type, connection_id, sender_id, offer_id, data, is_sender) ==
    [message_type |-> message_type, connection_id |-> connection_id,
     sender_id |-> sender_id, offer_id |-> offer_id, data |-> data,
     is_sender |-> is_sender]

\* Vec::retain(|id| id != connection_id)
RECURSIVE Retain(_, _)
Retain(s, connection_id) ==
    IF s = <<>> THEN <<>>
    ELSE IF Head(s) = connection_id THEN Retain(Tail(s), connection_id)
         ELSE <<Head(s)>> \o Retain(Tail(s), connection_id)

\* A reading of the key that takes any present value for a string.
AsStrLenient(v) == v

\* d.get(key).and_then(|s| s.as_str())
AsStr(v) == IF v \in {None, NonStr} THEN None ELSE v

\* message.is_sender.unwrap_or(false)
UnwrapOrFalse(b) == b = "true"

Range(s) == {s[i] : i \in DOMAIN s}

\* ------------------------------------------------ responses (pure parts)
\* add_connection, lines 108-125: the catch-up Offer of a joining viewer.
AddConnectionResponses(rooms_guard, room_id, connection_id, is_sender, uuid) ==
    IF ~is_sender /\ room_id \in DOMAIN rooms_guard
       /\ rooms_guard[room_id].sender_id # None
       /\ rooms_guard[room_id].sender_sdp # None
    THEN << SignalingMessage("Offer", connection_id, rooms_guard[room_id].sender_id,
                             uuid + 1,
                             [NoData EXCEPT !.sdp = rooms_guard[room_id].sender_sdp],
                             "false") >>
    ELSE <<>>

\* handle_sdp, lines 146-158: one Offer per viewer, a fresh Uuid each.
OfferResponses(rooms_guard, room_id, connection_id, sdp, uuid) ==
    IF room_id \in DOMAIN rooms_guard
    THEN [i \in 1..Len(rooms_guard[room_id].viewer_ids) |->
            SignalingMessage("Offer", rooms_guard[room_id].viewer_ids[i], connection_id,
                             uuid + i, [NoData EXCEPT !.sdp = sdp], "false")]
    ELSE <<>>

\* handle_ice_candidate that forwards nothing for a connection that is not
\* the room's sender.
IceResponsesBroadcastOnly(rooms_guard, room_id, connection_id, candidate) ==
    IF room_id \in DOMAIN rooms_guard /\ rooms_guard[room_id].sender_id = connection_id
    THEN [i \in 1..Len(rooms_guard[room_id].viewer_ids) |->
            SignalingMessage("IceCandidate", rooms_guard[room_id].viewer_ids[i],
                             connection_id, NoOfferId,
                             [NoData EXCEPT !.candidate = candidate], "None")]
    ELSE <<>>

\* handle_ice_candidate, lines 179-207.
IceResponses(rooms_guard, room_id, connection_id, candidate) ==
    IF room_id \in DOMAIN rooms_guard
    THEN LET room == rooms_guard[room_id]
             is_sender == room.sender_id = connection_id
         IN IF is_sender
            THEN [i \in 1..Len(room.viewer_ids) |->
                    SignalingMessage("IceCandidate", room.viewer_ids[i], connection_id,
                                     NoOfferId, [NoData EXCEPT !.candidate = candidate],
                                     "None")]
            ELSE IF room.sender_id # None
                 THEN << SignalingMessage("IceCandidate", room.sender_id, connection_id,
                                          NoOfferId,
                                          [NoData EXCEPT !.candidate = candidate], "None") >>
                 ELSE <<>>
    ELSE <<>>

\* remove_connection, lines 230-234: viewer_ids chained with sender_id,
\* without the departed id.
ParticipantIds(room, connection_id) ==
    Retain(room.viewer_ids \o (IF room.sender_id # None THEN <<room.sender_id>> ELSE <<>>),
           connection_id)

\* remove_connection, lines 229-249.
LeaveResponses(rooms_guard, room_id, connection_id) ==
    IF room_id \in DOMAIN rooms_guard
    THEN LET room == rooms_guard[room_id]
             participant_ids == ParticipantIds(room, connection_id)
         IN [i \in 1..Len(participant_ids) |->
               SignalingMessage("Leave", participant_ids[i], None, NoOfferId,
                   [NoData EXCEPT !.connection_id = connection_id,
                                  !.connection_count =
                                      Len(room.viewer_ids)
                                      + (IF room.sender_id # None THEN 1 ELSE 0)],
                   "None")]
    ELSE <<>>

\* add_connection that pushes the viewer's id twice.
AttachToRoomTwice(rooms_map, room_id, connection_id, is_sender) ==
    IF room_id \in DOMAIN rooms_map
    THEN IF is_sender
         THEN [rooms_map EXCEPT ![room_id].sender_id = connection_id]
         ELSE [rooms_map EXCEPT ![room_id].viewer_ids =
                                   Append(Append(@, connection_id), connection_id)]
    ELSE rooms_map

\* --------------------------------------------- table updates (pure parts)
\* add_connection, lines 100-106.
AttachToRoom(rooms_map, room_id, connection_id, is_sender) ==
    IF room_id \in DOMAIN rooms_map
    THEN IF is_sender
         THEN [rooms_map EXCEPT ![room_id].sender_id = connection_id]
         ELSE [rooms_map EXCEPT ![room_id].viewer_ids = Append(@, connection_id)]
    ELSE rooms_map

\* handle_sdp that stores every sdp as the connection's offer as well.
StoreSdpBothFields(connections_map, connection_id, field, sdp) ==
    IF connection_id \in DOMAIN connections_map
    THEN [connections_map EXCEPT ![connection_id].sdp_offer = sdp,
                                 ![connection_id].sdp_answer = sdp]
    ELSE connections_map

\* handle_sdp, lines 136-138 (field sdp_offer) and 162-164 (field sdp_answer).
StoreSdp(connections_map, connection_id, field, sdp) ==
    IF connection_id \in DOMAIN connections_map
    THEN IF field = "sdp_offer"
         THEN [connections_map EXCEPT ![connection_id].sdp_offer = sdp]
         ELSE [connections_map EXCEPT ![connection_id].sdp_answer = sdp]
    ELSE connections_map

\* handle_sdp, lines 141-143.
StoreSenderSdp(rooms_map, room_id, sdp) ==
    IF room_id \in DOMAIN rooms_map
    THEN [rooms_map EXCEPT ![room_id].sender_sdp = sdp]
    ELSE rooms_map

\* remove_connection that leaves the room's sender in place.
DetachFromRoomKeepsSender(rooms_map, room_id, connection_id) ==
    IF room_id \in DOMAIN rooms_map
    THEN [rooms_map EXCEPT ![room_id].viewer_ids = Retain(@, connection_id),
                           ![room_id].viewer_sdp = {p \in @ : p[1] # connection_id}]
    ELSE rooms_map

\* remove_connection, lines 217-224.
DetachFromRoom(rooms_map, room_id, connection_id) ==
    IF room_id \in DOMAIN rooms_map
    THEN LET room == rooms_map[room_id]
             cleared == IF room.sender_id = connection_id
                        THEN [room EXCEPT !.sender_id = None, !.sender_sdp = None]
                        ELSE room
         IN [rooms_map EXCEPT ![room_id] =
                [cleared EXCEPT !.viewer_ids = Retain(room.viewer_ids, connection_id),
                                !.viewer_sdp = {p \in room.viewer_sdp : p[1] # connection_id}]]
    ELSE rooms_map

\* ------------------------------------------------- lock acquisitions
\* The acquisitions of each handler in program order: the table and whether
\* it is .write() or .read().  Every guard is a local of the function body
\* (or of the if-block of handle_sdp) and is dropped when the handler returns.
W(tbl) == [tbl |-> tbl, mode |-> "w"]
R(tbl) == [tbl |-> tbl, mode |-> "r"]

CreateRoomLocks == << W("rooms") >>

AddConnectionLocks == << W("connections"), W("rooms"), R("rooms") >>

HandleSdpOfferLocks == << W("connections"), W("rooms"), R("rooms") >>

HandleSdpAnswerLocks == << W("connections") >>

\* handle_ice_candidate reading the room table under the connection table's
\* guard.
HandleIceCandidateLocksConnections == << R("connections") >>

HandleIceCandidateLocks == << R("rooms") >>

\* remove_connection taking the room table before the connection table.
RemoveConnectionLocksRoomsFirst == << W("rooms"), W("connections"), R("rooms") >>

RemoveConnectionLocks == << W("connections"), W("rooms"), R("rooms") >>

\* --------------------------------------------------------------- state
VARIABLES
    rooms,        \* SimpleSfuManager.rooms: room id -> SimpleSfuRoom
    connections,  \* SimpleSfuManager.connections: connection id -> SimpleSfuConnection
    lockW,        \* per table: the task holding its write guard, None if none
    lockR,        \* per table: the tasks holding a read guard
    waitq,        \* per table: the acquisitions waiting, first come first served
    pc,           \* per task: "idle", "done", or the line of the acquisition it awaits
    call,         \* per task: the handler it runs and its arguments
    result,       \* per task: what its last call returned
    nextUuid,     \* the number of Uuids drawn so far
    calls,        \* the number of calls started so far
    acquired,     \* per task: the tables whose guards its call was granted, in order
    joined        \* per connection id: the rooms its record was attached to

vars == <<rooms, connections, lockW, lockR, waitq, pc, call, result, nextUuid,
          calls, acquired, joined>>

tables == <<rooms, connections, joined, nextUuid>>

NoCall ==
    [op |-> "none", message_type |-> "none", room_id |-> None, connection_id |-> None,
     is_sender |-> FALSE, sdp |-> None, is_offer |-> FALSE, candidate |-> None]

Ok(responses) == [ok |-> TRUE, responses |-> responses]

\* Err(anyhow!(..)) of handle_message
Err == [ok |-> FALSE, responses |-> <<>>]

\* SimpleSfuManager::new
Init ==
    /\ rooms = EmptyMap
    /\ connections = EmptyMap
    /\ lockW = [tbl \in Tables |-> None]
    /\ lockR = [tbl \in Tables |-> {}]
    /\ waitq = [tbl \in Tables |-> <<>>]
    /\ pc = [t \in Tasks |-> "idle"]
    /\ call = [t \in Tasks |-> NoCall]
    /\ result = [t \in Tasks |-> Ok(<<>>)]
    /\ nextUuid = 0
    /\ calls = 0
    /\ acquired = [t \in Tasks |-> <<>>]
    /\ joined = [c \in ConnIds |-> {}]

\* ----------------------------------------------------------- RwLock
Holds(t, l) == IF l.mode = "w" THEN lockW[l.tbl] = t ELSE t \in lockR[l.tbl]

HoldsGuard(t, tbl) == lockW[tbl] = t \/ t \in lockR[tbl]

Waiting(t, tbl) == \E i \in DOMAIN waitq[tbl] : waitq[tbl][i].task = t

\* self.<table>.write().await / .read().await: the task queues its request
\* and is suspended at the line named by `at` until the guard is handed to it.
Await(t, l, at) ==
    /\ waitq' = [waitq EXCEPT ![l.tbl] = Append(@, [task |-> t, mode |-> l.mode])]
    /\ pc' = [pc EXCEPT ![t] = at]
    /\ UNCHANGED <<lockW, lockR, result, acquired>>

\* The same inside a handler: the call goes on.
Continue(t, l, at) == Await(t, l, at) /\ UNCHANGED <<call, calls>>

\* The handler returns: every guard it holds is dropped.
Return(t, res) ==
    /\ lockW' = [tbl \in Tables |-> IF lockW[tbl] = t THEN None ELSE lockW[tbl]]
    /\ lockR' = [tbl \in Tables |-> lockR[tbl] \ {t}]
    /\ pc' = [pc EXCEPT ![t] = "done"]
    /\ result' = [result EXCEPT ![t] = res]
    /\ acquired' = [acquired EXCEPT ![t] = <<>>]
    /\ UNCHANGED waitq

\* tokio's RwLock hands the lock to the oldest waiting acquisition as soon as
\* it is compatible with the guards that are held: a writer needs the table
\* free, a reader needs it free of a writer.
Grant(tbl) ==
    /\ waitq[tbl] # <<>>
    /\ LET h == Head(waitq[tbl]) IN
        /\ lockW[tbl] = None
        /\ h.mode = "w" => lockR[tbl] = {}
        /\ lockW' = [lockW EXCEPT ![tbl] = IF h.mode = "w" THEN h.task ELSE @]
        /\ lockR' = [lockR EXCEPT ![tbl] = IF h.mode = "r" THEN @ \cup {h.task} ELSE @]
        /\ acquired' = [acquired EXCEPT ![h.task] = Append(@, tbl)]
    /\ waitq' = [waitq EXCEPT ![tbl] = Tail(@)]
    /\ UNCHANGED <<rooms, connections, joined, nextUuid, pc, call, result, calls>>

\* A task is free to start a call.
Free(t) == pc[t] \in {"idle", "done"} /\ calls < MaxCalls

\* A call starts and runs up to its first acquisition.
Enter(t, c, l, at) ==
    /\ call' = [call EXCEPT ![t] = c]
    /\ calls' = calls + 1
    /\ Await(t, l, at)

\* A handler returns.
Finish(t, res) ==
    /\ Return(t, res)
    /\ call' = [call EXCEPT ![t] = NoCall]
    /\ UNCHANGED calls

\* handle_message returns without entering a handler.
Reply(t, c, res) ==
    /\ Return(t, res)
    /\ call' = [call EXCEPT ![t] = c]
    /\ calls' = calls + 1

\* ------------------------------------------------------------- inputs
\* The envelopes a transport may hand to handle_message: per type, the
\* fields handle_message reads from it take every shape (absent, not a
\* string, a value); the fields it does not read are absent.
Envelope(message_type, connection_id, is_sender, sdp, candidate) ==
    SignalingMessage(message_type, connection_id, None, NoOfferId,
                     [NoData EXCEPT !.sdp = sdp, !.candidate = candidate], is_sender)

OptConn == ConnIds \cup {None}

InboundMessages ==
    {Envelope("Join", c, b, None, None) : c \in OptConn, b \in OptBool}
    \cup {Envelope(ty, c, "None", s, None) :
            ty \in {"Offer", "Answer"}, c \in OptConn, s \in Sdps \cup {None, NonStr}}
    \cup {Envelope("IceCandidate", c, "None", None, k) :
            c \in OptConn, k \in Cands \cup {None, NonStr}}
    \cup {Envelope("Leave", c, "None", None, None) : c \in OptConn}

\* ------------------------------------------------------------ handlers
\* handle_message, lines 39-72: checks the fields the type needs and enters
\* the handler, up to the handler's first acquisition.
handle_message(t) ==
    \E room_id \in RoomIds, message \in InboundMessages :
        LET connection_id == message.connection_id
            sdp == AsStr(message.data.sdp)
            candidate == AsStr(message.data.candidate)
            c == [NoCall EXCEPT !.message_type = message.message_type,
                                !.room_id = room_id, !.connection_id = connection_id,
                                !.sdp = sdp, !.candidate = candidate]
            \* the envelope of a rejected message, kept for the caller
            e == [c EXCEPT !.room_id = None]
        IN
        /\ Free(t)
        /\ UNCHANGED tables
        /\ CASE message.message_type = "Join" ->
                  IF connection_id = None
                  THEN Reply(t, e, Err)
                  ELSE Enter(t, [c EXCEPT !.op = "add_connection",
                                          !.is_sender = UnwrapOrFalse(message.is_sender)],
                             AddConnectionLocks[1], "L96")
             [] message.message_type \in {"Offer", "Answer"} ->
                  IF connection_id = None \/ sdp = None
                  THEN Reply(t, e, Err)
                  ELSE IF message.message_type = "Offer"
                       THEN Enter(t, [c EXCEPT !.op = "handle_sdp", !.sdp = sdp,
                                               !.is_offer = TRUE],
                                  HandleSdpOfferLocks[1], "L135")
                       ELSE Enter(t, [c EXCEPT !.op = "handle_sdp", !.sdp = sdp,
                                               !.is_offer = FALSE],
                                  HandleSdpAnswerLocks[1], "L161")
             [] message.message_type = "IceCandidate" ->
                  IF connection_id = None \/ candidate = None
                  THEN Reply(t, e, Err)
                  ELSE Enter(t, [c EXCEPT !.op = "handle_ice_candidate",
                                          !.candidate = candidate],
                             HandleIceCandidateLocks[1], "L178")
             [] OTHER -> Reply(t, c, Ok(<<>>))

\* create_room, lines 74-86.
create_room(t) ==
    IF Free(t)
    THEN \E room_id \in RoomIds :
            /\ Enter(t, [NoCall EXCEPT !.op = "create_room", !.room_id = room_id],
                     CreateRoomLocks[1], "L83")
            /\ UNCHANGED tables
    ELSE /\ call[t].op = "create_room"
         /\ pc[t] = "L83"
         /\ Holds(t, CreateRoomLocks[1])
         /\ rooms' = MapInsert(rooms, call[t].room_id, SimpleSfuRoom(call[t].room_id))
         /\ Finish(t, Ok(<<>>))
         /\ UNCHANGED <<connections, joined, nextUuid>>

\* add_connection, lines 88-128.
add_connection(t) ==
    LET room_id == call[t].room_id
        connection_id == call[t].connection_id
        is_sender == call[t].is_sender
    IN
    /\ call[t].op = "add_connection"
    /\ CASE pc[t] = "L96" ->
              /\ Holds(t, AddConnectionLocks[1])
              /\ connections' = MapInsert(connections, connection_id,
                                          SimpleSfuConnection(connection_id, is_sender))
              /\ Continue(t, AddConnectionLocks[2], "L99")
              /\ UNCHANGED <<rooms, joined, nextUuid>>
         [] pc[t] = "L99" ->
              /\ Holds(t, AddConnectionLocks[2])
              /\ rooms' = AttachToRoom(rooms, room_id, connection_id, is_sender)
              /\ joined' = IF room_id \in DOMAIN rooms
                           THEN [joined EXCEPT ![connection_id] = @ \cup {room_id}]
                           ELSE joined
              /\ IF ~is_sender
                 THEN Continue(t, AddConnectionLocks[3], "L112")
                 ELSE Finish(t, Ok(<<>>))
              /\ UNCHANGED <<connections, nextUuid>>
         [] pc[t] = "L112" ->
              /\ Holds(t, AddConnectionLocks[3])
              /\ LET responses == AddConnectionResponses(rooms, room_id, connection_id,
                                                         is_sender, nextUuid)
                 IN /\ nextUuid' = nextUuid + Len(responses)
                    /\ Finish(t, Ok(responses))
              /\ UNCHANGED <<rooms, connections, joined>>
         [] OTHER -> FALSE

\* handle_sdp, lines 130-171.
handle_sdp(t) ==
    LET room_id == call[t].room_id
        connection_id == call[t].connection_id
        sdp == call[t].sdp
    IN
    /\ call[t].op = "handle_sdp"
    /\ CASE pc[t] = "L135" ->
              /\ Holds(t, HandleSdpOfferLocks[1])
              /\ connections' = StoreSdp(connections, connection_id, "sdp_offer", sdp)
              /\ Continue(t, HandleSdpOfferLocks[2], "L140")
              /\ UNCHANGED <<rooms, joined, nextUuid>>
         [] pc[t] = "L140" ->
              /\ Holds(t, HandleSdpOfferLocks[2])
              /\ rooms' = StoreSenderSdp(rooms, room_id, sdp)
              /\ Continue(t, HandleSdpOfferLocks[3], "L146")
              /\ UNCHANGED <<connections, joined, nextUuid>>
         [] pc[t] = "L146" ->
              /\ Holds(t, HandleSdpOfferLocks[3])
              /\ LET responses == OfferResponses(rooms, room_id, connection_id, sdp, nextUuid)
                 IN /\ nextUuid' = nextUuid + Len(responses)
                    /\ Finish(t, Ok(responses))
              /\ UNCHANGED <<rooms, connections, joined>>
         [] pc[t] = "L161" ->
              /\ Holds(t, HandleSdpAnswerLocks[1])
              /\ connections' = StoreSdp(connections, connection_id, "sdp_answer", sdp)
              /\ Finish(t, Ok(<<>>))
              /\ UNCHANGED <<rooms, joined, nextUuid>>
         [] OTHER -> FALSE

\* handle_ice_candidate, lines 173-210.
handle_ice_candidate(t) ==
    /\ call[t].op = "handle_ice_candidate"
    /\ pc[t] = "L178"
    /\ Holds(t, HandleIceCandidateLocks[1])
    /\ Finish(t, Ok(IceResponses(rooms, call[t].room_id, call[t].connection_id,
                                 call[t].candidate)))
    /\ UNCHANGED <<rooms, connections, joined, nextUuid>>

\* remove_connection, lines 212-252.
remove_connection(t) ==
    IF Free(t)
    THEN \E room_id \in RoomIds, connection_id \in ConnIds :
            /\ Enter(t, [NoCall EXCEPT !.op = "remove_connection", !.room_id = room_id,
                                       !.connection_id = connection_id],
                     RemoveConnectionLocks[1], "L213")
            /\ UNCHANGED tables
    ELSE LET room_id == call[t].room_id
             connection_id == call[t].connection_id
         IN
         /\ call[t].op = "remove_connection"
         /\ CASE pc[t] = "L213" ->
                   /\ Holds(t, RemoveConnectionLocks[1])
                   /\ connections' = MapRemove(connections, connection_id)
                   /\ joined' = [joined EXCEPT ![connection_id] = {}]
                   /\ Continue(t, RemoveConnectionLocks[2], "L216")
                   /\ UNCHANGED <<rooms, nextUuid>>
              [] pc[t] = "L216" ->
                   /\ Holds(t, RemoveConnectionLocks[2])
                   /\ rooms' = DetachFromRoom(rooms, room_id, connection_id)
                   /\ Continue(t, RemoveConnectionLocks[3], "L227")
                   /\ UNCHANGED <<connections, joined, nextUuid>>
              [] pc[t] = "L227" ->
                   /\ Holds(t, RemoveConnectionLocks[3])
                   /\ Finish(t, Ok(LeaveResponses(rooms, room_id, connection_id)))
                   /\ UNCHANGED <<rooms, connections, joined, nextUuid>>
              [] OTHER -> FALSE

\* ------------------------------------------------------- specification
Next ==
    \/ \E t \in Tasks : handle_message(t)
    \/ \E t \in Tasks : create_room(t)
    \/ \E t \in Tasks : add_connection(t)
    \/ \E t \in Tasks : handle_sdp(t)
    \/ \E t \in Tasks : handle_ice_candidate(t)
    \/ \E t \in Tasks : remove_connection(t)
    \/ \E tbl \in Tables : Grant(tbl)

Spec == Init /\ [][Next]_vars

\* A call in progress takes its next step; the runtime schedules every task
\* and the lock hands itself to the oldest waiter.
Running(t) == pc[t] \notin {"idle", "done"}

Proceed(t) ==
    /\ Running(t)
    /\ \/ create_room(t)
       \/ add_connection(t)
       \/ handle_sdp(t)
       \/ handle_ice_candidate(t)
       \/ remove_connection(t)

FairSpec ==
    /\ Spec
    /\ \A t \in Tasks : WF_vars(Proceed(t))
    /\ \A tbl \in Tables : WF_vars(Grant(tbl))

\* ================================================================ claims

\* C1: every call that has started eventually returns a result, under fair
\* scheduling of the tasks and fair lock hand-off; no call waits forever for
\* the room table or the connection table.
C1_EveryCallReturns == \A t \in Tasks : [](Running(t) => <>(pc[t] = "done"))

\* C2: no call requests a read or write acquisition of a table while it
\* still holds a guard on that same table.
C2_NoReacquireWhileHeld ==
    \A t \in Tasks, tbl \in Tables : ~(Waiting(t, tbl) /\ HoldsGuard(t, tbl))

\* C3: a call that holds guards on both tables was granted the connection
\* table first, no call waits for the connection table while holding the room
\* table, and so no two calls wait for each other's table.
C3_LockOrder ==
    /\ \A t \in Tasks :
          (HoldsGuard(t, "connections") /\ HoldsGuard(t, "rooms"))
              => /\ Len(acquired[t]) >= 2
                 /\ acquired[t][1] = "connections"
                 /\ \A i \in 2..Len(acquired[t]) : acquired[t][i] = "rooms"
    /\ \A t \in Tasks : ~(HoldsGuard(t, "rooms") /\ Waiting(t, "connections"))
    /\ \A t1, t2 \in Tasks :
          ~(/\ t1 # t2
            /\ HoldsGuard(t1, "rooms") /\ Waiting(t1, "connections")
            /\ HoldsGuard(t2, "connections") /\ Waiting(t2, "rooms"))

\* Two calls contend: one holds the connection table and waits for the room
\* table, which the other holds; and a call holds both tables.
C3_Witness ==
    /\ \E t1, t2 \in Tasks :
          /\ t1 # t2
          /\ HoldsGuard(t1, "connections") /\ Waiting(t1, "rooms")
          /\ HoldsGuard(t2, "rooms")
    \/ \E t1, t2 \in Tasks :
          /\ t1 # t2
          /\ HoldsGuard(t1, "connections") /\ HoldsGuard(t1, "rooms")
          /\ Waiting(t2, "connections")

\* The number of messages of a response list addressed to connection id.
AddressedTo(responses, id) ==
    Cardinality({i \in DOMAIN responses : responses[i].connection_id = id})

Occurrences(ids, id) == Cardinality({i \in DOMAIN ids : ids[i] = id})

\* A response list has exactly one message per entry of ids.
OnePerEntry(responses, ids) ==
    /\ Len(responses) = Len(ids)
    /\ \A id \in ConnIds : AddressedTo(responses, id) = Occurrences(ids, id)

\* The participants of a room: its sender and its viewers.
Member(room, id) == room.sender_id = id \/ id \in Range(room.viewer_ids)

\* C4: a viewer's Join processed for a room returns exactly one Offer,
\* addressed to the viewer and carrying the cached sdp, when the room has a
\* cached senderSdp, and an empty result when it has none.
C4_LateJoinCatchUp ==
    \A t \in Tasks, c \in ConnIds, s \in Sdps \cup {None} :
        []((/\ call[t].op = "add_connection" /\ ~call[t].is_sender
            /\ call[t].connection_id = c
            /\ pc[t] = "L112"
            /\ call[t].room_id \in DOMAIN rooms
            /\ rooms[call[t].room_id].sender_sdp = s)
           => <>(/\ pc[t] = "done" /\ result[t].ok
                 /\ IF s = None
                    THEN result[t].responses = <<>>
                    ELSE /\ Len(result[t].responses) = 1
                         /\ result[t].responses[1].message_type = "Offer"
                         /\ result[t].responses[1].connection_id = c
                         /\ result[t].responses[1].data.sdp = s))

\* C5: an Offer with sdp s from connection c to an existing room returns one
\* Offer per entry of viewerIds, each with sdp s, senderId c and an offerId
\* of its own, and leaves the room's senderSdp at s.
C5_OfferFanOut ==
    \A t \in Tasks, r \in RoomIds, c \in ConnIds, s \in Sdps :
        []((/\ call[t].op = "handle_sdp" /\ call[t].is_offer
            /\ call[t].room_id = r /\ call[t].connection_id = c /\ call[t].sdp = s
            /\ pc[t] = "L146"
            /\ r \in DOMAIN rooms)
           => <>(/\ pc[t] = "done" /\ result[t].ok
                 /\ r \in DOMAIN rooms
                 /\ rooms[r].sender_sdp = s
                 /\ OnePerEntry(result[t].responses, rooms[r].viewer_ids)
                 /\ \A i \in DOMAIN result[t].responses :
                       /\ result[t].responses[i].message_type = "Offer"
                       /\ result[t].responses[i].data.sdp = s
                       /\ result[t].responses[i].sender_id = c
                       /\ \A j \in DOMAIN result[t].responses :
                             i # j => result[t].responses[i].offer_id
                                      # result[t].responses[j].offer_id))

C7_LeaveNotificationCount ==
    \A t \in Tasks, r \in RoomIds, c \in ConnIds :
        []((/\ call[t].op = "remove_connection"
            /\ call[t].room_id = r /\ call[t].connection_id = c
            /\ pc[t] = "L227"
            /\ r \in DOMAIN rooms)
           => <>(/\ pc[t] = "done" /\ result[t].ok
                 /\ r \in DOMAIN rooms
                 /\ LET n == Len(rooms[r].viewer_ids)
                             + (IF rooms[r].sender_id # None THEN 1 ELSE 0)
                    IN /\ Len(result[t].responses) = n
                       /\ \A i \in DOMAIN result[t].responses :
                             /\ result[t].responses[i].message_type = "Leave"
                             /\ result[t].responses[i].data.connection_id = c
                             /\ result[t].responses[i].data.connection_count = n
                             /\ result[t].responses[i].connection_id # c))

\* C8: handle_message on a Leave envelope for a connection registered in the
\* room removes its record and drops it from the room's membership, as
\* remove_connection does.
C8_LeaveDispatchRemoves ==
    [][\A t \in Tasks, r \in RoomIds, c \in ConnIds :
          (/\ pc[t] \in {"idle", "done"} /\ pc'[t] = "done"
           /\ calls' = calls + 1
           /\ call'[t].message_type = "Leave"
           /\ call'[t].room_id = r /\ call'[t].connection_id = c
           /\ \A u \in Tasks \ {t} : pc'[u] = pc[u] /\ call'[u] = call[u]
           /\ c \in DOMAIN connections
           /\ r \in DOMAIN rooms
           /\ Member(rooms[r], c))
          => /\ c \notin DOMAIN connections'
             /\ r \in DOMAIN rooms'
             /\ ~Member(rooms'[r], c)
      ]_vars

\* C9: create_room for a room id that exists leaves the room's senderId,
\* viewerIds and senderSdp as they were, and returns without error.
C9_CreateRoomIdempotent ==
    [][\A t \in Tasks :
          (/\ call[t].op = "create_room"
           /\ pc[t] = "L83" /\ pc'[t] = "done"
           /\ call[t].room_id \in DOMAIN rooms)
          => LET r == call[t].room_id
             IN /\ result'[t].ok
                /\ rooms'[r].sender_id = rooms[r].sender_id
                /\ rooms'[r].viewer_ids = rooms[r].viewer_ids
                /\ rooms'[r].sender_sdp = rooms[r].sender_sdp
      ]_vars

\* No call is between its update of the connection table and its update of
\* the room table.
Settled == \A t \in Tasks : pc[t] \notin {"L99", "L216"}

\* C10: for every room, senderId is set if and only if the connection table
\* holds a record with is_sender = true that joined the room and has not
\* been removed.
C10_SenderRoleInvariant ==
    Settled =>
        \A r \in DOMAIN rooms :
            (rooms[r].sender_id # None)
                <=> (\E c \in DOMAIN connections :
                        connections[c].is_sender /\ r \in joined[c])


MissingField(c) ==
    \/ c.message_type \in {"Join", "Offer", "Answer", "IceCandidate"}
       /\ c.connection_id = None
    \/ c.message_type \in {"Offer", "Answer"} /\ c.sdp \in {None, NonStr}
    \/ c.message_type = "IceCandidate" /\ c.candidate \in {None, NonStr}

\* Task t hands an envelope to handle_message in this step.
Dispatches(t) ==
    /\ pc[t] \in {"idle", "done"}
    /\ calls' = calls + 1
    /\ call'[t].message_type # "none"
    /\ \A u \in Tasks \ {t} :
          pc'[u] = pc[u] /\ call'[u] = call[u] /\ result'[u] = result[u]

\* C12: a Join, Offer, Answer or IceCandidate without connectionId, an Offer
\* or Answer without data.sdp, or an IceCandidate without data.candidate
\* makes handle_message return an error at once; the room table and the
\* connection table are as before and the caller holds and awaits no lock.
C12_MissingFieldRejected ==
    [][\A t \in Tasks :
          (Dispatches(t) /\ MissingField(call'[t]))
          => /\ pc'[t] = "done"
             /\ ~result'[t].ok
             /\ rooms' = rooms
             /\ connections' = connections
             /\ \A tbl \in Tables :
                   /\ lockW'[tbl] # t
                   /\ t \notin lockR'[tbl]
                   /\ \A i \in DOMAIN waitq'[tbl] : waitq'[tbl][i].task # t
      ]_vars

\* An Offer without sdp was rejected while a room and a connection exist.
C12_Witness ==
    \E t \in Tasks :
        /\ pc[t] = "done"
        /\ ~result[t].ok
        /\ call[t].message_type = "Offer"
        /\ call[t].connection_id # None
        /\ call[t].sdp = None
        /\ DOMAIN rooms # {}
        /\ DOMAIN connections # {}


\* One of the four handlers that take a room id and a connection id.
InHandler(t) ==
    /\ Running(t)
    /\ call[t].op \in {"add_connection", "handle_sdp", "handle_ice_candidate",
                       "remove_connection"}

\* C13: an operation given all its fields but naming a room that does not
\* exist or a connection that is not registered returns success, never an
\* error.
C13_UnknownDegradesSilently ==
    \A t \in Tasks :
        []((/\ InHandler(t)
            /\ \/ call[t].room_id \notin DOMAIN rooms
               \/ call[t].connection_id \notin DOMAIN connections)
           => <>(pc[t] = "done" /\ result[t].ok))

\* s is t with some entries left out, the others in the same order.
RECURSIVE IsSubsequence(_, _)
IsSubsequence(s, t) ==
    IF s = <<>> THEN TRUE
    ELSE IF t = <<>> THEN FALSE
    ELSE IF Head(s) = Head(t) THEN IsSubsequence(Tail(s), Tail(t))
    ELSE IsSubsequence(s, Tail(t))

NoDuplicates(s) == \A i, j \in DOMAIN s : i # j => s[i] # s[j]

C15_OrphanOnMissingRoom ==
    \A t \in Tasks, r \in RoomIds, c \in ConnIds :
        []((/\ call[t].op = "add_connection"
            /\ call[t].room_id = r /\ call[t].connection_id = c
            /\ pc[t] = "L99" /\ lockW["rooms"] = t
            /\ r \notin DOMAIN rooms)
           => <>(/\ pc[t] = "done"
                 /\ result[t] = Ok(<<>>)
                 /\ c \in DOMAIN connections
                 /\ r \notin DOMAIN rooms))


\* C16: an Answer with sdp S from connection C returns an empty result, sets
\* only sdp_answer of C's record to S when C is registered and nothing when it
\* is not, and leaves the room table, every other record, and C's sdp_offer
\* and is_sender as they were.
C16_AnswerFrame ==
    [][\A t \in Tasks :
          (call[t].op = "handle_sdp" /\ pc[t] = "L161" /\ pc'[t] = "done") =>
              LET c == call[t].connection_id IN
              /\ result'[t] = Ok(<<>>)
              /\ rooms' = rooms
              /\ DOMAIN connections' = DOMAIN connections
              /\ \A k \in DOMAIN connections :
                    IF k = c
                    THEN connections'[k] = [connections[k] EXCEPT !.sdp_answer = call[t].sdp]
                    ELSE connections'[k] = connections[k]
      ]_vars

\* A registered connection's Answer has been stored.
C16_Witness ==
    \E c \in DOMAIN connections :
        /\ connections[c].sdp_answer \in Sdps
        /\ connections[c].sdp_offer = None

\* The connection ids a response list is addressed to, in order.
Addressees(responses) == [i \in DOMAIN responses |-> responses[i].connection_id]

\* The call of task t is at the await that precedes its fan-out.
AtFanOut(t) ==
    \/ call[t].op = "handle_sdp" /\ pc[t] = "L146"
    \/ call[t].op = "handle_ice_candidate" /\ pc[t] = "L178"
    \/ call[t].op = "remove_connection" /\ pc[t] = "L227"

C18_SdpImpliesSender ==
    \A r \in DOMAIN rooms :
        rooms[r].sender_sdp # None => rooms[r].sender_id # None

\* C19: whenever no call is between its two table updates, every id that is
\* a room's sender_id or is in a room's viewer_ids has a record in the
\* connection table.
C19_MembersAreRegistered ==
    Settled =>
        \A r \in DOMAIN rooms, id \in ConnIds :
            Member(rooms[r], id) => id \in DOMAIN connections

====
